---- MODULE Spec2Model ----
(***************************************************************************)
(* A model of go-bexpr: derivation of field configurations from a Go data  *)
(* type (field configuration file), validation of an expression against    *)
(* them, and evaluation of the validated expression against a datum        *)
(* (bexpr/evaluate.go).                                                    *)
(*                                                                         *)
(* Go strings are sequences of one-character strings, so that              *)
(* strings.Split and strings.Contains are computed, not assumed.  Go types *)
(* (reflect.Type) and Go values (reflect.Value) are records tagged with    *)
(* their reflect.Kind in the field "kind".                                 *)
(***************************************************************************)
EXTENDS Integers, Sequences, FiniteSets, TLC

VARIABLES
    pc,         \* "start", then "panicked" | "failed" | "configured", then
                \* "rejected" | "validated", then "evaluated"
    dataType,   \* the Go type the field configurations were derived from
    fields,     \* outcome of GenerateFieldConfigurations for dataType
    verr,       \* the error of the validation, "nil" for none
    ast,        \* the expression given to the validation, prepared by it
    datum,      \* the datum of the last Evaluate call
    result      \* outcome of the last Evaluate call, with its probe log

vars == <<pc, dataType, fields, verr, ast, datum, result>>

(***************************************************************************)
(* Bounds of the model.                                                    *)
(***************************************************************************)
\* longest slice value in a datum
MaxLen == 2
\* longest selector of a match expression
MaxSelector == 2

(***************************************************************************)
(* reflect.Type                                                            *)
(***************************************************************************)
TString == [kind |-> "string"]
TInt == [kind |-> "int"]
TChan == [kind |-> "chan"]
TPtr(t) == [kind |-> "ptr", elem |-> t]
TSlice(t) == [kind |-> "slice", elem |-> t]
TMap(k, t) == [kind |-> "map", key |-> k, elem |-> t]
\* impl: the struct type implements ExpressionEvaluator (value receivers)
TStruct(impl, fs) == [kind |-> "struct", impl |-> impl, fields |-> fs]
\* reflect.StructField: PkgPath is empty for exported fields, Tag is the
\* value of the bexpr key of the struct tag
StructField(name, pkgPath, tag, type) ==
    [Name |-> name, PkgPath |-> pkgPath, Tag |-> tag, Type |-> type]

\* FieldNameAny FieldName = ""
FieldNameAny == <<>>

MatchEqual == "MatchEqual"
MatchNotEqual == "MatchNotEqual"
MatchIn == "MatchIn"
MatchNotIn == "MatchNotIn"
MatchIsEmpty == "MatchIsEmpty"
MatchIsNotEmpty == "MatchIsNotEmpty"
MatchOperators ==
    {MatchEqual, MatchNotEqual, MatchIn, MatchNotIn, MatchIsEmpty, MatchIsNotEmpty}

\* the kinds that have an entry in primitiveEqualityFns / primitiveCoercionFns;
\* "string" and "int" stand for the fourteen primitive kinds
PrimitiveKinds == {"string", "int"}

RECURSIVE derefType(_)
derefType(rtype) ==
    IF rtype.kind = "ptr" THEN derefType(rtype.elem) ELSE rtype

\* rtype.Implements(ExpressionEvaluator)
Implements(rtype) == rtype.kind = "struct" /\ rtype.impl

(***************************************************************************)
(* FieldConfiguration and FieldConfigurations                              *)
(***************************************************************************)
NilConfig == [nil |-> TRUE]
\* a nil or empty FieldConfigurations map
NoFields == <<>>
NoCoerce == "nil"

FieldConfiguration(structFieldName, subFields, coerceFn, ops) ==
    [StructFieldName |-> structFieldName, SubFields |-> subFields,
     CoerceFn |-> coerceFn, SupportedOperations |-> ops]

\* m[k] = v on a Go map
MapSet(m, k, v) == [x \in (DOMAIN m) \cup {k} |-> IF x = k THEN v ELSE m[x]]

\* Outcome of a derivation function: it returns (cfg, err) or the goroutine
\* panics.
Returned(cfg) == [panic |-> FALSE, err |-> "nil", cfg |-> cfg]
Failed(err) == [panic |-> FALSE, err |-> err, cfg |-> NilConfig]
Panicked == [panic |-> TRUE, err |-> "nil", cfg |-> NilConfig]

\* strings.Split(s, ",") for a non-empty s
RECURSIVE SplitFrom(_, _, _)
SplitFrom(s, i, cur) ==
    IF i > Len(s) THEN <<cur>>
    ELSE IF s[i] = "," THEN <<cur>> \o SplitFrom(s, i + 1, <<>>)
    ELSE SplitFrom(s, i + 1, Append(cur, s[i]))

Split(s) == SplitFrom(s, 1, <<>>)

\* The FieldConfigurations() method of the ExpressionEvaluator
\* implementation used in the model: it exposes one selectable name, "A".
EvaluableFieldConfigurations ==
    (<<"A">> :> FieldConfiguration(<<>>, NoFields, "string",
                                   {MatchEqual, MatchNotEqual}))

RECURSIVE generateFieldConfigurationInternal(_)
RECURSIVE generateStructFieldsFrom(_, _, _)

generateSliceFieldConfiguration(elemType) ==
    IF elemType.kind \in PrimitiveKinds
    THEN Returned(FieldConfiguration(<<>>, NoFields, elemType.kind,
                      {MatchIn, MatchNotIn, MatchIsEmpty, MatchIsNotEmpty}))
    ELSE LET sub == generateFieldConfigurationInternal(elemType) IN
         IF sub.panic THEN Panicked
         ELSE IF sub.err # "nil" THEN Failed(sub.err)
         ELSE IF sub.cfg # NilConfig /\ DOMAIN sub.cfg.SubFields # {}
         THEN Returned(FieldConfiguration(<<>>, sub.cfg.SubFields, NoCoerce,
                           {MatchIsEmpty, MatchIsNotEmpty}))
         ELSE Returned(FieldConfiguration(<<>>, NoFields, NoCoerce,
                           {MatchIsEmpty, MatchIsNotEmpty}))

generateMapFieldConfiguration(keyType, valueType) ==
    IF keyType.kind = "string"
    THEN LET sub == generateFieldConfigurationInternal(valueType) IN
         IF sub.panic THEN Panicked
         ELSE IF sub.err # "nil" THEN Failed(sub.err)
         ELSE IF sub.cfg # NilConfig
         THEN Returned(FieldConfiguration(<<>>, (FieldNameAny :> sub.cfg), "string",
                           {MatchIsEmpty, MatchIsNotEmpty, MatchIn, MatchNotIn}))
         ELSE Returned(FieldConfiguration(<<>>, NoFields, "string",
                           {MatchIsEmpty, MatchIsNotEmpty, MatchIn, MatchNotIn}))
    ELSE Returned(FieldConfiguration(<<>>, NoFields, NoCoerce,
                      {MatchIsEmpty, MatchIsNotEmpty}))

\* StructFieldSkipped without the test for the tag "-"
StructFieldSkippedUnexportedOnly(field) == field.PkgPath # <<>>

\* the loop of generateStructFieldConfigurations continues past the field
\* without binding a name
StructFieldSkipped(field) ==
    \/ field.PkgPath # <<>>
    \/ field.Tag # <<>> /\ Split(field.Tag)[1] = <<"-">>

\* fieldNames: the names the field is bound under
StructFieldNames(field) ==
    IF field.Tag # <<>> THEN Split(field.Tag) ELSE <<field.Name>>

RECURSIVE BindAll(_, _, _, _)
BindAll(fieldConfigs, names, i, cfg) ==
    IF i > Len(names) THEN fieldConfigs
    ELSE BindAll(MapSet(fieldConfigs, names[i], cfg), names, i + 1, cfg)

\* the loop of generateStructFieldConfigurations from field i on
generateStructFieldsFrom(rtype, i, fieldConfigs) ==
    IF i > Len(rtype.fields) THEN Returned(fieldConfigs)
    ELSE LET field == rtype.fields[i] IN
         IF StructFieldSkipped(field)
         THEN generateStructFieldsFrom(rtype, i + 1, fieldConfigs)
         ELSE LET sub == generateFieldConfigurationInternal(derefType(field.Type)) IN
              IF sub.panic THEN Panicked
              ELSE IF sub.err # "nil" THEN Failed(sub.err)
              \* cfg.StructFieldName = field.Name dereferences a nil cfg
              ELSE IF sub.cfg = NilConfig THEN Panicked
              ELSE generateStructFieldsFrom(rtype, i + 1,
                       BindAll(fieldConfigs, StructFieldNames(field), 1,
                               [sub.cfg EXCEPT !.StructFieldName = field.Name]))

generateStructFieldConfigurations(rtype) ==
    generateStructFieldsFrom(rtype, 1, NoFields)

generateFieldConfigurationInternal(rtype) ==
    IF Implements(rtype)
    THEN Returned(FieldConfiguration(<<>>, EvaluableFieldConfigurations, NoCoerce, {}))
    ELSE IF rtype.kind \in PrimitiveKinds
    THEN Returned(FieldConfiguration(<<>>, NoFields, rtype.kind,
                      {MatchEqual, MatchNotEqual}))
    ELSE IF rtype.kind = "map"
    THEN generateMapFieldConfiguration(derefType(rtype.key), derefType(rtype.elem))
    ELSE IF rtype.kind = "slice"
    THEN generateSliceFieldConfiguration(derefType(rtype.elem))
    ELSE IF rtype.kind = "struct"
    THEN LET sub == generateStructFieldConfigurations(rtype) IN
         IF sub.panic THEN Panicked
         ELSE IF sub.err # "nil" THEN Failed(sub.err)
         ELSE Returned(FieldConfiguration(<<>>, sub.cfg, NoCoerce, {}))
    ELSE Returned(NilConfig)

\* generateFieldConfigurationsAndType for a top-level value of type
\* topLevelType; cfg is the FieldConfigurations returned
generateFieldConfigurationsAndType(topLevelType) ==
    LET rtype == derefType(topLevelType) IN
    IF Implements(topLevelType) THEN Returned(EvaluableFieldConfigurations)
    ELSE IF rtype.kind = "struct" THEN generateStructFieldConfigurations(rtype)
    ELSE IF rtype.kind = "map"
    THEN IF rtype.key.kind # "string" THEN Failed("NonStringKeys")
         ELSE LET field == generateFieldConfigurationInternal(derefType(rtype.elem)) IN
              IF field.panic THEN Panicked
              ELSE IF field.err # "nil" THEN Failed(field.err)
              ELSE IF field.cfg = NilConfig THEN Returned(NoFields)
              ELSE Returned((FieldNameAny :> field.cfg))
    ELSE Failed("InvalidTopLevelType")

(***************************************************************************)
(* reflect.Value                                                           *)
(***************************************************************************)
VString(s) == [kind |-> "string", str |-> s]
VInt(n) == [kind |-> "int", int |-> n]
VChan == [kind |-> "chan"]
VNil == [kind |-> "ptr", nil |-> TRUE]
VPtr(v) == [kind |-> "ptr", nil |-> FALSE, elem |-> v]
\* elem is the static element type, value.Type().Elem()
VSlice(elemType, items) == [kind |-> "slice", elem |-> elemType, items |-> items]
\* key is the static key type; entries maps the keys present to their values
VMap(keyType, entries) == [kind |-> "map", key |-> keyType, entries |-> entries]
\* fs maps each physical field name to [PkgPath, Value]
VStruct(impl, fs) == [kind |-> "struct", impl |-> impl, fields |-> fs]
\* the zero reflect.Value
Invalid == [kind |-> "invalid"]
\* a nil interface{} (getMatchExprValue of a match without value)
NilInterface == [kind |-> "nil"]

\* reflect.Indirect: one level of pointer; a nil pointer gives the zero Value
Indirect(v) ==
    IF v.kind # "ptr" THEN v
    ELSE IF v.nil THEN Invalid
    ELSE v.elem

\* value.Interface().(ExpressionEvaluator)
IsExpressionEvaluator(value) == value.kind = "struct" /\ value.impl

\* strings.Contains(s, substr)
HasPrefixAt(s, i, substr) ==
    /\ i + Len(substr) - 1 <= Len(s)
    /\ \A j \in 1..Len(substr) : s[i + j - 1] = substr[j]

Contains(s, substr) == \E i \in 1..(Len(s) + 1) : HasPrefixAt(s, i, substr)

(***************************************************************************)
(* Expressions                                                             *)
(***************************************************************************)
NilValue == [nil |-> TRUE]
NilConverted == [kind |-> "nil"]
MatchValue(raw) == [nil |-> FALSE, Raw |-> raw, Converted |-> NilConverted]
MatchExpr(selector, operator, value) ==
    [node |-> "MatchExpr", Selector |-> selector, Operator |-> operator, Value |-> value]
UnaryExpr(operator, operand) ==
    [node |-> "UnaryExpr", Operator |-> operator, Operand |-> operand]
BinaryExpr(operator, left, right) ==
    [node |-> "BinaryExpr", Operator |-> operator, Left |-> left, Right |-> right]
UnaryOpNot == "UnaryOpNot"
BinaryOpAnd == "BinaryOpAnd"
BinaryOpOr == "BinaryOpOr"

(***************************************************************************)
(* Evaluation (bexpr/evaluate.go)                                          *)
(***************************************************************************)
\* Outcome of an evaluation function: it returns (result, err) or the
\* goroutine panics.
EvalReturn(b, err) == [panic |-> FALSE, result |-> b, err |-> err]
EvalPanic == [panic |-> TRUE, result |-> FALSE, err |-> "nil"]

getMatchExprValue(expression) ==
    IF expression.Value = NilValue THEN NilInterface
    ELSE IF expression.Value.Converted # NilConverted THEN expression.Value.Converted
    ELSE VString(expression.Value.Raw)

\* primitiveEqualityFns[kind](first, second); the type assertions of
\* doEqual* panic on a value of another type, and a kind without entry gives
\* a nil function, whose call panics
PrimitiveEqual(kind, first, second) ==
    IF kind \notin PrimitiveKinds THEN EvalPanic
    ELSE IF first.kind # kind \/ second.kind # kind THEN EvalPanic
    ELSE IF kind = "string" THEN EvalReturn(first.str = second.str, "nil")
    ELSE EvalReturn(first.int = second.int, "nil")

doMatchEqual(expression, value) ==
    \* value.Interface() panics on the zero Value
    IF value.kind = "invalid" THEN EvalPanic
    ELSE PrimitiveEqual(value.kind, getMatchExprValue(expression), value)

\* the loop of doMatchIn over the items of a slice, from item i on
RECURSIVE doMatchInItems(_, _, _, _)
doMatchInItems(matchValue, itemKind, items, i) ==
    IF i > Len(items) THEN EvalReturn(FALSE, "nil")
    ELSE LET item == Indirect(items[i]) IN
         \* reflect.Indirect(item).Interface() panics on the zero Value
         IF item.kind = "invalid" THEN EvalPanic
         ELSE LET eq == PrimitiveEqual(itemKind, matchValue, item) IN
              IF eq.panic THEN EvalPanic
              ELSE IF eq.result THEN EvalReturn(TRUE, "nil")
              ELSE doMatchInItems(matchValue, itemKind, items, i + 1)

doMatchIn(expression, value) ==
    LET matchValue == getMatchExprValue(expression) IN
    IF value.kind = "map"
    \* MapIndex panics on a key that is not assignable to the key type
    THEN IF matchValue.kind # value.key.kind THEN EvalPanic
         ELSE IF matchValue.kind = "string"
         THEN EvalReturn(matchValue.str \in DOMAIN value.entries, "nil")
         ELSE EvalReturn(matchValue.int \in DOMAIN value.entries, "nil")
    ELSE IF value.kind = "slice"
    THEN doMatchInItems(matchValue, derefType(value.elem).kind, value.items, 1)
    ELSE IF value.kind = "string"
    \* matchValue.(string)
    THEN IF matchValue.kind # "string" THEN EvalPanic
         ELSE EvalReturn(Contains(value.str, matchValue.str), "nil")
    ELSE EvalReturn(FALSE, "CannotPerformIn")

\* value.Len() panics on the kinds that have no length
doMatchIsEmpty(matcher, value) ==
    IF value.kind = "map" THEN EvalReturn(DOMAIN value.entries = {}, "nil")
    ELSE IF value.kind = "slice" THEN EvalReturn(Len(value.items) = 0, "nil")
    ELSE IF value.kind = "string" THEN EvalReturn(Len(value.str) = 0, "nil")
    ELSE IF value.kind = "chan" THEN EvalReturn(TRUE, "nil")
    ELSE EvalPanic

\* return !result, nil when err == nil, and false, err otherwise
NegateUnlessError(out) ==
    IF out.panic THEN EvalPanic
    ELSE IF out.err = "nil" THEN EvalReturn(~out.result, "nil")
    ELSE EvalReturn(FALSE, out.err)

\* the switch on expression.Operator at the end of the selector
ExecuteMatch(expression, rvalue) ==
    IF expression.Operator = MatchEqual THEN doMatchEqual(expression, rvalue)
    ELSE IF expression.Operator = MatchNotEqual
    THEN NegateUnlessError(doMatchEqual(expression, rvalue))
    ELSE IF expression.Operator = MatchIn THEN doMatchIn(expression, rvalue)
    ELSE IF expression.Operator = MatchNotIn
    THEN NegateUnlessError(doMatchIn(expression, rvalue))
    ELSE IF expression.Operator = MatchIsEmpty THEN doMatchIsEmpty(expression, rvalue)
    ELSE IF expression.Operator = MatchIsNotEmpty
    THEN NegateUnlessError(doMatchIsEmpty(expression, rvalue))
    ELSE EvalReturn(FALSE, "InvalidMatchOperation")

\* The EvaluateMatch method of the ExpressionEvaluator implementation used in
\* the model: on its one selectable name "A" it matches by containment in
\* its field A, and it reports an error for anything else.
EvaluateMatch(self, selector, operator, value) ==
    IF selector # <<<<"A">>>> \/ value.kind # "string"
    THEN EvalReturn(FALSE, "EvaluateMatchError")
    ELSE IF operator = MatchEqual
    THEN EvalReturn(Contains(self.fields[<<"A">>].Value.str, value.str), "nil")
    ELSE IF operator = MatchNotEqual
    THEN EvalReturn(~Contains(self.fields[<<"A">>].Value.str, value.str), "nil")
    ELSE EvalReturn(FALSE, "EvaluateMatchError")

\* AbsentKeyAnswer with MatchIn moved to the operators answered true
AbsentKeyAnswerInTrue(operator) ==
    IF operator \in {MatchEqual, MatchIsNotEmpty}
    THEN EvalReturn(FALSE, "nil")
    ELSE EvalReturn(TRUE, "nil")

\* the answer for a key that is not in the map
AbsentKeyAnswer(operator) ==
    IF operator \in {MatchEqual, MatchIsNotEmpty, MatchIn}
    THEN EvalReturn(FALSE, "nil")
    ELSE EvalReturn(TRUE, "nil")

\* expression.Selector[depth+1:]
SelectorTail(expression, depth) ==
    SubSeq(expression.Selector, depth + 2, Len(expression.Selector))

\* A call of evaluateMatchExpressionRecurse, and the outcome of a traversal
\* together with the calls of evaluateMatchExpressionRecurse it has made, in
\* the order they were entered.
Call(expression, depth, rvalue, fieldConfigs) ==
    [expression |-> expression, depth |-> depth, rvalue |-> rvalue,
     fields |-> fieldConfigs]
Traced(out, calls) == [out |-> out, calls |-> calls]

RECURSIVE evaluateMatchExpressionRecurse(_, _, _, _)
RECURSIVE evaluateSliceItems(_, _, _, _, _)
RECURSIVE evaluateSliceItemsPastErrors(_, _, _, _, _)

\* evaluateSliceItems going on to the next item after an item's error
evaluateSliceItemsPastErrors(expression, depth, rvalue, fieldConfigs, i) ==
    IF i > Len(rvalue.items) THEN Traced(EvalReturn(FALSE, "nil"), <<>>)
    ELSE LET item == Indirect(rvalue.items[i])
             r == evaluateMatchExpressionRecurse(expression, depth, item, fieldConfigs)
         IN  IF r.out.panic THEN Traced(EvalPanic, r.calls)
             ELSE IF r.out.err = "nil" /\ r.out.result
             THEN Traced(EvalReturn(TRUE, "nil"), r.calls)
             ELSE LET rest == evaluateSliceItemsPastErrors(expression, depth, rvalue,
                                                           fieldConfigs, i + 1)
                  IN  Traced(rest.out, r.calls \o rest.calls)

\* the loop of the Slice case over the items, from item i on
evaluateSliceItems(expression, depth, rvalue, fieldConfigs, i) ==
    IF i > Len(rvalue.items) THEN Traced(EvalReturn(FALSE, "nil"), <<>>)
    ELSE LET item == Indirect(rvalue.items[i])
             r == evaluateMatchExpressionRecurse(expression, depth, item, fieldConfigs)
         IN  IF r.out.panic THEN Traced(EvalPanic, r.calls)
             ELSE IF r.out.err # "nil" THEN Traced(EvalReturn(FALSE, r.out.err), r.calls)
             ELSE IF r.out.result THEN Traced(EvalReturn(TRUE, "nil"), r.calls)
             ELSE LET rest == evaluateSliceItems(expression, depth, rvalue,
                                                 fieldConfigs, i + 1)
                  IN  Traced(rest.out, r.calls \o rest.calls)

evaluateStructField(expression, depth, rvalue, fieldConfigs) ==
    LET name == expression.Selector[depth + 1] IN
    \* fields[name] is nil for a missing name; fieldConfig.StructFieldName
    \* then dereferences nil
    IF name \notin DOMAIN fieldConfigs THEN Traced(EvalPanic, <<>>)
    ELSE LET fieldConfig == fieldConfigs[name]
             fieldName == IF fieldConfig.StructFieldName # <<>>
                          THEN fieldConfig.StructFieldName ELSE name
         IN  \* FieldByName gives the zero Value for a missing field
             IF fieldName \notin DOMAIN rvalue.fields THEN Traced(EvalPanic, <<>>)
             ELSE LET field == rvalue.fields[fieldName]
                      value == Indirect(field.Value)
                  IN  \* Interface() panics on the zero Value and on a value
                      \* obtained from an unexported field
                      IF value.kind = "invalid" \/ field.PkgPath # <<>>
                      THEN Traced(EvalPanic, <<>>)
                      ELSE IF IsExpressionEvaluator(value)
                      THEN Traced(EvaluateMatch(value, SelectorTail(expression, depth),
                                      expression.Operator, getMatchExprValue(expression)),
                                  <<>>)
                      ELSE evaluateMatchExpressionRecurse(expression, depth + 1,
                               value, fieldConfig.SubFields)

evaluateMapValue(expression, depth, rvalue, fieldConfigs) ==
    LET name == expression.Selector[depth + 1] IN
    \* MapIndex panics on a key that is not assignable to the key type
    IF rvalue.key.kind # "string" THEN Traced(EvalPanic, <<>>)
    ELSE LET value == IF name \in DOMAIN rvalue.entries
                      THEN Indirect(rvalue.entries[name]) ELSE Invalid
         IN  IF value.kind = "invalid"
             THEN Traced(AbsentKeyAnswer(expression.Operator), <<>>)
             ELSE IF IsExpressionEvaluator(value)
             THEN Traced(EvaluateMatch(value, SelectorTail(expression, depth),
                             expression.Operator, getMatchExprValue(expression)),
                         <<>>)
             \* fields[FieldNameAny].SubFields dereferences nil without wildcard
             ELSE IF FieldNameAny \notin DOMAIN fieldConfigs THEN Traced(EvalPanic, <<>>)
             ELSE evaluateMatchExpressionRecurse(expression, depth + 1, value,
                      fieldConfigs[FieldNameAny].SubFields)

\* the body of evaluateMatchExpressionRecurse
evaluateMatchExpressionBody(expression, depth, rvalue, fieldConfigs) ==
    IF depth >= Len(expression.Selector)
    THEN Traced(ExecuteMatch(expression, rvalue), <<>>)
    ELSE IF rvalue.kind = "struct"
    THEN evaluateStructField(expression, depth, rvalue, fieldConfigs)
    ELSE IF rvalue.kind = "slice"
    THEN evaluateSliceItems(expression, depth, rvalue, fieldConfigs, 1)
    ELSE IF rvalue.kind = "map"
    THEN evaluateMapValue(expression, depth, rvalue, fieldConfigs)
    ELSE Traced(EvalReturn(FALSE, "NoNestedFieldSelection"), <<>>)

evaluateMatchExpressionRecurse(expression, depth, rvalue, fieldConfigs) ==
    LET r == evaluateMatchExpressionBody(expression, depth, rvalue, fieldConfigs) IN
    Traced(r.out, <<Call(expression, depth, rvalue, fieldConfigs)>> \o r.calls)

evaluateMatchExpression(expression, d, fieldConfigs) ==
    IF IsExpressionEvaluator(d)
    THEN Traced(EvaluateMatch(d, expression.Selector, expression.Operator,
                    getMatchExprValue(expression)), <<>>)
    ELSE evaluateMatchExpressionRecurse(expression, 0, Indirect(d), fieldConfigs)

\* evaluate returns the outcome together with the probe log (the match
\* expressions evaluated, in the order of their evaluation) and the calls of
\* evaluateMatchExpressionRecurse made
Probed(out, probe, calls) == [out |-> out, probe |-> probe, calls |-> calls]

\* evaluateNot negating only a result that comes without an error
evaluateNotUnlessError(operand) ==
    IF operand.out.panic \/ operand.out.err # "nil" THEN operand
    ELSE Probed(EvalReturn(~operand.out.result, "nil"), operand.probe,
                operand.calls)

\* UnaryOpNot: return !result, err
evaluateNot(operand) ==
    IF operand.out.panic THEN operand
    ELSE Probed(EvalReturn(~operand.out.result, operand.out.err), operand.probe,
                operand.calls)

\* AndReturnsLeft without the test for a false result
AndReturnsLeftOnErrorOnly(left) == left.err # "nil"
\* OrReturnsLeft without the test for an error
OrReturnsLeftOnTrueOnly(left) == left.result = TRUE

\* left has returned: whether BinaryOpAnd / BinaryOpOr returns it
AndReturnsLeft(left) == left.err # "nil" \/ left.result = FALSE
OrReturnsLeft(left) == left.err # "nil" \/ left.result = TRUE

RECURSIVE evaluate(_, _, _)
evaluate(e, d, fieldConfigs) ==
    IF e.node = "UnaryExpr" /\ e.Operator = UnaryOpNot
    THEN evaluateNot(evaluate(e.Operand, d, fieldConfigs))
    ELSE IF e.node = "BinaryExpr" /\ e.Operator \in {BinaryOpAnd, BinaryOpOr}
    THEN LET left == evaluate(e.Left, d, fieldConfigs) IN
         IF left.out.panic THEN left
         ELSE IF (IF e.Operator = BinaryOpAnd THEN AndReturnsLeft(left.out)
                                              ELSE OrReturnsLeft(left.out))
         THEN left
         ELSE LET right == evaluate(e.Right, d, fieldConfigs) IN
              Probed(right.out, left.probe \o right.probe, left.calls \o right.calls)
    ELSE IF e.node = "MatchExpr"
    THEN LET m == evaluateMatchExpression(e, d, fieldConfigs) IN
         Probed(m.out, <<e>>, m.calls)
    ELSE Probed(EvalReturn(FALSE, "InvalidASTNode"), <<>>, <<>>)

(***************************************************************************)
(* Validation and preparation of a parsed expression                       *)
(***************************************************************************)
Digits == ("0" :> 0) @@ ("1" :> 1) @@ ("2" :> 2) @@ ("3" :> 3) @@ ("4" :> 4) @@
          ("5" :> 5) @@ ("6" :> 6) @@ ("7" :> 7) @@ ("8" :> 8) @@ ("9" :> 9)

\* base-10 value of the digits raw[1..i]
RECURSIVE DecimalValue(_, _)
DecimalValue(raw, i) ==
    IF i = 0 THEN 0 ELSE 10 * DecimalValue(raw, i - 1) + Digits[raw[i]]

Coerced(value) == [err |-> "nil", value |-> value]
CoercionError == [err |-> "CoercionError", value |-> NilConverted]

CoerceString(raw) == Coerced(VString(raw))

CoerceInt(raw) ==
    IF Len(raw) > 0 /\ \A i \in 1..Len(raw) : raw[i] \in DOMAIN Digits
    THEN Coerced(VInt(DecimalValue(raw, Len(raw))))
    ELSE CoercionError

\* primitiveCoercionFns[kind](raw)
Coerce(coerceFn, raw) ==
    IF coerceFn = "string" THEN CoerceString(raw) ELSE CoerceInt(raw)

\* the walk of the selector through the sub-fields, from name i on; cfg is
\* the configuration of the last name
RECURSIVE walkSelector(_, _, _, _)
walkSelector(selector, i, configs, lastConfig) ==
    IF i > Len(selector) THEN [err |-> "nil", cfg |-> lastConfig]
    ELSE IF selector[i] \in DOMAIN configs
    THEN walkSelector(selector, i + 1, configs[selector[i]].SubFields,
                      configs[selector[i]])
    ELSE IF FieldNameAny \in DOMAIN configs
    THEN walkSelector(selector, i + 1, configs[FieldNameAny].SubFields,
                      configs[FieldNameAny])
    ELSE [err |-> "InvalidSelector", cfg |-> NilConfig]

Validated(e, matches) == [err |-> "nil", ast |-> e, matches |-> matches]
Rejected(err, e, matches) == [err |-> err, ast |-> e, matches |-> matches]

validateMatch(e, fieldConfigs, maxRawValueLength) ==
    LET walk == walkSelector(e.Selector, 1, fieldConfigs, NilConfig) IN
    IF walk.err # "nil" THEN Rejected(walk.err, e, 1)
    ELSE IF e.Operator \notin walk.cfg.SupportedOperations
    THEN Rejected("OperatorNotSupported", e, 1)
    ELSE IF e.Value = NilValue THEN Validated(e, 1)
    ELSE IF maxRawValueLength > 0 /\ Len(e.Value.Raw) > maxRawValueLength
    THEN Rejected("RawValueTooLong", e, 1)
    ELSE IF walk.cfg.CoerceFn = NoCoerce THEN Validated(e, 1)
    ELSE LET c == Coerce(walk.cfg.CoerceFn, e.Value.Raw) IN
         IF c.err # "nil" THEN Rejected(c.err, e, 1)
         ELSE Validated([e EXCEPT !.Value.Converted = c.value], 1)

RECURSIVE validateRecurse(_, _, _)
validateRecurse(e, fieldConfigs, maxRawValueLength) ==
    IF e.node = "UnaryExpr"
    THEN LET o == validateRecurse(e.Operand, fieldConfigs, maxRawValueLength) IN
         IF o.err # "nil" THEN Rejected(o.err, e, o.matches)
         ELSE Validated([e EXCEPT !.Operand = o.ast], o.matches)
    ELSE IF e.node = "BinaryExpr"
    THEN LET l == validateRecurse(e.Left, fieldConfigs, maxRawValueLength) IN
         IF l.err # "nil" THEN Rejected(l.err, e, l.matches)
         ELSE LET r == validateRecurse(e.Right, fieldConfigs, maxRawValueLength) IN
              IF r.err # "nil" THEN Rejected(r.err, e, l.matches + r.matches)
              ELSE Validated([e EXCEPT !.Left = l.ast, !.Right = r.ast],
                             l.matches + r.matches)
    ELSE validateMatch(e, fieldConfigs, maxRawValueLength)

\* the evaluator configuration in use: no limit on the matches or on the
\* length of the raw values
EvaluatorConfig == [MaxMatches |-> 0, MaxRawValueLength |-> 0]

validate(e, fieldConfigs, config) ==
    LET v == validateRecurse(e, fieldConfigs, config.MaxRawValueLength) IN
    IF v.err # "nil" THEN v
    ELSE IF config.MaxMatches > 0 /\ v.matches > config.MaxMatches
    THEN Rejected("TooManyMatches", e, v.matches)
    ELSE v

(***************************************************************************)
(* The data types, data and expressions the program is run on              *)
(***************************************************************************)
Exported == <<>>
Unexported == <<"p", "k", "g">>
NoTag == <<>>

\* type User struct { A string }
User == TStruct(FALSE, <<StructField(<<"A">>, Exported, NoTag, TString)>>)
\* type Ev struct { A string }, with the methods of ExpressionEvaluator
Ev == TStruct(TRUE, <<StructField(<<"A">>, Exported, NoTag, TString)>>)

ElemTypes == {TString, TInt, TChan, User, Ev}

FieldTypes ==
    UNION {{e, TPtr(e), TSlice(e), TSlice(TPtr(e)), TMap(TString, e),
            TMap(TString, TPtr(e))} : e \in ElemTypes}
    \cup {TMap(TInt, TString), TPtr(TPtr(TString)), TSlice(TSlice(TString)),
          TMap(TString, TSlice(TString)), TSlice(TMap(TString, TString))}

\* struct { A <t> }
StructOf(t) == TStruct(FALSE, <<StructField(<<"A">>, Exported, NoTag, t)>>)

Tags == {NoTag, <<"-">>, <<"x">>, <<"x", ",", "y">>, <<"B">>, <<"-", ",", "x">>}

\* struct { A|c <string|chan> `bexpr:"<tag>"`; B string `bexpr:"<tag>"` }
NamingTypes ==
    {TStruct(FALSE, <<StructField(n[1], n[2], t1, ty),
                      StructField(<<"B">>, Exported, t2, TString)>>) :
        n \in {<<<<"A">>, Exported>>, <<<<"c">>, Unexported>>},
        t1 \in Tags, ty \in {TString, TChan},
        t2 \in {NoTag, <<"-">>, <<"x">>}}

DataTypes ==
    {StructOf(t) : t \in FieldTypes} \cup NamingTypes
    \cup {TMap(TString, e) : e \in ElemTypes}
    \cup {TMap(TString, TPtr(User)), TMap(TInt, TString), Ev, TPtr(StructOf(TString)),
          TString, TSlice(TString)}

\* the types of the runs on And, Or and Not expressions
LogicTypes ==
    {StructOf(TSlice(TPtr(User))), StructOf(TPtr(TString)), StructOf(Ev),
     StructOf(TMap(TString, TPtr(TString))), StructOf(TSlice(Ev)),
     TMap(TString, TPtr(User))}

Strings == {<<"x">>, <<"x", "y">>}
Ints == {1, 2}
StringKeys == {<<"x">>, <<"y">>}
IntKeys == {1}

SeqsUpTo(S, n) == UNION {[1..k -> S] : k \in 0..n}
MapsOver(K, V) == UNION {[ks -> V] : ks \in SUBSET K}

\* the values of type t
RECURSIVE Values(_)
RECURSIVE StructValues(_, _)
Values(t) ==
    IF t.kind = "string" THEN {VString(s) : s \in Strings}
    ELSE IF t.kind = "int" THEN {VInt(n) : n \in Ints}
    ELSE IF t.kind = "chan" THEN {VChan}
    ELSE IF t.kind = "ptr" THEN {VNil} \cup {VPtr(v) : v \in Values(t.elem)}
    ELSE IF t.kind = "slice"
    THEN {VSlice(t.elem, items) : items \in SeqsUpTo(Values(t.elem), MaxLen)}
    ELSE IF t.kind = "map"
    THEN {VMap(t.key, entries) :
             entries \in MapsOver(IF t.key.kind = "string" THEN StringKeys ELSE IntKeys,
                                  Values(t.elem))}
    ELSE {VStruct(t.impl, fs) : fs \in StructValues(t, Len(t.fields))}

\* the field values of the first n fields of struct type t
StructValues(t, n) ==
    IF n = 0 THEN {<<>>}
    ELSE {MapSet(fs, t.fields[n].Name, [PkgPath |-> t.fields[n].PkgPath, Value |-> v]) :
             fs \in StructValues(t, n - 1), v \in Values(t.fields[n].Type)}

Names == {<<"A">>, <<"B">>, <<"c">>, <<"x">>, <<"y">>}
Raws == {<<"x">>, <<"1">>}
Selectors == UNION {[1..k -> Names] : k \in 1..MaxSelector}

\* the match expressions the parser hands over
MatchExprs ==
    {MatchExpr(sel, op, MatchValue(raw)) :
        sel \in Selectors, op \in {MatchEqual, MatchNotEqual, MatchIn, MatchNotIn},
        raw \in Raws}
    \cup {MatchExpr(sel, op, NilValue) :
             sel \in Selectors, op \in {MatchIsEmpty, MatchIsNotEmpty}}

LogicMatchExprs ==
    {e \in MatchExprs :
        /\ e.Selector \in {<<<<"A">>>>, <<<<"A">>, <<"A">>>>, <<<<"A">>, <<"x">>>>,
                           <<<<"x">>, <<"A">>>>}
        /\ e.Operator \in {MatchEqual, MatchNotEqual, MatchIsEmpty, MatchIn}
        /\ e.Value # MatchValue(<<"1">>)}

Not(e) == UnaryExpr(UnaryOpNot, e)
And(a, b) == BinaryExpr(BinaryOpAnd, a, b)
Or(a, b) == BinaryExpr(BinaryOpOr, a, b)

LogicExprs ==
    {Not(a) : a \in LogicMatchExprs}
    \cup {Not(Not(a)) : a \in LogicMatchExprs}
    \cup UNION {{And(a, b), Or(a, b), Not(And(a, b)), Not(Or(a, b))} :
                   a \in LogicMatchExprs, b \in LogicMatchExprs}

(***************************************************************************)
(* The program                                                             *)
(***************************************************************************)
NoAst == [node |-> "nil"]
NoDatum == [kind |-> "nil"]
NoResult == Probed(EvalReturn(FALSE, "nil"), <<>>, <<>>)
NotConfigured == [panic |-> FALSE, err |-> "nil", cfg |-> NoFields]

InitOn(types) ==
    /\ pc = "start"
    /\ dataType \in types
    /\ fields = NotConfigured
    /\ verr = "nil"
    /\ ast = NoAst
    /\ datum = NoDatum
    /\ result = NoResult

Init == InitOn(DataTypes)

InitLogic == InitOn(LogicTypes)

\* GenerateFieldConfigurations(topLevelType)
GenerateFieldConfigurations ==
    /\ pc = "start"
    /\ fields' = generateFieldConfigurationsAndType(dataType)
    /\ pc' = IF fields'.panic THEN "panicked"
             ELSE IF fields'.err # "nil" THEN "failed"
             ELSE "configured"
    /\ UNCHANGED <<dataType, verr, ast, datum, result>>

\* validation of a parsed expression drawn from exprs
ValidateFrom(exprs) ==
    /\ pc = "configured"
    /\ \E e \in exprs :
          LET v == validate(e, fields.cfg, EvaluatorConfig) IN
          /\ verr' = v.err
          /\ ast' = v.ast
          /\ pc' = IF v.err = "nil" THEN "validated" ELSE "rejected"
    /\ UNCHANGED <<dataType, fields, datum, result>>

Validate == ValidateFrom(MatchExprs)

ValidateLogic == ValidateFrom(LogicExprs)

\* Evaluate(datum) of an evaluator, on a datum of the evaluator's type.  An
\* evaluation reads the expression and the configurations and writes
\* nothing, so a run holds one.
Evaluate ==
    /\ pc = "validated"
    /\ \E d \in Values(dataType) :
          /\ datum' = d
          /\ result' = evaluate(ast, d, fields.cfg)
    /\ pc' = "evaluated"
    /\ UNCHANGED <<dataType, fields, verr, ast>>

Next == GenerateFieldConfigurations \/ Validate \/ Evaluate

NextLogic == GenerateFieldConfigurations \/ ValidateLogic \/ Evaluate

Spec == Init /\ [][Next]_vars

SpecLogic == InitLogic /\ [][NextLogic]_vars

(***************************************************************************)
(* Properties                                                              *)
(***************************************************************************)
\* the evaluation returned true without error
IsTrue(out) == ~out.panic /\ out.err = "nil" /\ out.result
\* the evaluation returned false without error
IsFalse(out) == ~out.panic /\ out.err = "nil" /\ ~out.result

\* the calls of evaluateMatchExpressionRecurse of the last Evaluate
LastCalls == IF pc = "evaluated" THEN {result.calls[i] : i \in 1..Len(result.calls)} ELSE {}
\* the outcome of a call
OutcomeOf(c) ==
    evaluateMatchExpressionRecurse(c.expression, c.depth, c.rvalue, c.fields).out

\* the call descends into a map at a selector step that is no key of the map
AtAbsentKey(c) ==
    /\ c.rvalue.kind = "map"
    /\ c.rvalue.key.kind = "string"
    /\ c.depth < Len(c.expression.Selector)
    /\ c.expression.Selector[c.depth + 1] \notin DOMAIN c.rvalue.entries

\* C1: a descent into a map at a selector step that is not a key of the map
\* returns, without error, false for MatchEqual, MatchIn and MatchIsNotEmpty
\* and true for MatchNotEqual, MatchNotIn and MatchIsEmpty.
C1_AbsentKeyLaw ==
    \A c \in LastCalls :
        AtAbsentKey(c) =>
            /\ c.expression.Operator \in {MatchEqual, MatchIn, MatchIsNotEmpty}
                  => IsFalse(OutcomeOf(c))
            /\ c.expression.Operator \in {MatchNotEqual, MatchNotIn, MatchIsEmpty}
                  => IsTrue(OutcomeOf(c))

\* a run in which MatchIn descended into a non-empty map at an absent key
C1_Witness ==
    \E c \in LastCalls :
        /\ AtAbsentKey(c)
        /\ c.expression.Operator = MatchIn
        /\ DOMAIN c.rvalue.entries # {}

\* C2: the evaluation of a validated expression against a datum of the
\* schema's type never panics.
C2_NeverPanics == pc = "evaluated" => ~result.out.panic

\* the outcome of the call's expression on item i of the call's slice, at
\* the call's depth
ItemOutcome(c, i) ==
    evaluateMatchExpressionRecurse(c.expression, c.depth, Indirect(c.rvalue.items[i]),
                                   c.fields).out

\* C3 as stated: at every depth, a match on a slice is true iff it is true on
\* some item of the slice.
C3_ListExistentialAtEveryDepth ==
    \A c \in LastCalls :
        c.rvalue.kind = "slice" =>
            (IsTrue(OutcomeOf(c)) <=>
                \E i \in 1..Len(c.rvalue.items) : IsTrue(ItemOutcome(c, i)))

\* C3 amended: before the end of the selector, a match on a slice is true
\* iff it is true on some item and false without error on every item before
\* that one.
C3_ListExistential ==
    \A c \in LastCalls :
        c.rvalue.kind = "slice" /\ c.depth < Len(c.expression.Selector) =>
            (IsTrue(OutcomeOf(c)) <=>
                \E i \in 1..Len(c.rvalue.items) :
                    /\ IsTrue(ItemOutcome(c, i))
                    /\ \A j \in 1..(i - 1) : IsFalse(ItemOutcome(c, j)))

\* a run through a slice whose first item is false and whose second is true
C3_Witness ==
    \E c \in LastCalls :
        /\ c.rvalue.kind = "slice" /\ c.depth < Len(c.expression.Selector)
        /\ Len(c.rvalue.items) = 2
        /\ IsFalse(ItemOutcome(c, 1))
        /\ IsTrue(ItemOutcome(c, 2))
        /\ IsTrue(OutcomeOf(c))

\* the converted value of the call's match expression
ConvertedOf(c) == c.expression.Value.Converted
\* the arguments the evaluator hands to EvaluateMatch for the call's match
\* expression with the selector from name from on
Delegated(value, c, from) ==
    EvaluateMatch(value, SubSeq(c.expression.Selector, from, Len(c.expression.Selector)),
                  c.expression.Operator,
                  IF c.expression.Value = NilValue THEN NilInterface ELSE ConvertedOf(c))
\* the calls that descend by a selector step
Descents == {c \in LastCalls : c.depth < Len(c.expression.Selector)}
\* the value of the struct field the call selects
SelectedField(c) ==
    Indirect(c.rvalue.fields[c.fields[c.expression.Selector[c.depth + 1]].StructFieldName].Value)
\* the value of the map key the call selects
SelectedEntry(c) == Indirect(c.rvalue.entries[c.expression.Selector[c.depth + 1]])

\* C5: the traversal never enters a value that implements
\* ExpressionEvaluator; met as the datum, as a struct field, as a map value
\* or as an item of a slice, the outcome is what the value's EvaluateMatch
\* returns for the rest of the selector, the operator and the match value.
C5_Delegation ==
    /\ \A c \in LastCalls : ~IsExpressionEvaluator(c.rvalue)
    /\ pc = "evaluated" /\ ast.node = "MatchExpr" /\ IsExpressionEvaluator(datum)
          => result.out = Delegated(datum, Call(ast, 0, datum, fields.cfg), 1)
    /\ \A c \in Descents :
          /\ c.rvalue.kind = "struct" /\ IsExpressionEvaluator(SelectedField(c))
                => OutcomeOf(c) = Delegated(SelectedField(c), c, c.depth + 2)
          /\ c.rvalue.kind = "map" /\ ~AtAbsentKey(c)
                /\ IsExpressionEvaluator(SelectedEntry(c))
                => OutcomeOf(c) = Delegated(SelectedEntry(c), c, c.depth + 2)
          /\ c.rvalue.kind = "slice"
                => \A i \in 1..Len(c.rvalue.items) :
                       IsExpressionEvaluator(Indirect(c.rvalue.items[i]))
                          => ItemOutcome(c, i)
                                = Delegated(Indirect(c.rvalue.items[i]), c, c.depth + 1)

(***************************************************************************)
(* Properties of the derivation for a struct type                          *)
(***************************************************************************)
\* the names an annotation lists, for the annotations of the data types
ListedNames ==
    (<<"-">> :> {<<"-">>}) @@ (<<"x">> :> {<<"x">>})
    @@ (<<"x", ",", "y">> :> {<<"x">>, <<"y">>}) @@ (<<"B">> :> {<<"B">>})
    @@ (<<"-", ",", "x">> :> {<<"-">>, <<"x">>})

\* the fields of the struct type the configurations were derived from
RecordFields ==
    IF dataType.kind = "struct" /\ ~dataType.impl
    THEN {dataType.fields[i] : i \in 1..Len(dataType.fields)} ELSE {}
\* the position of a field in the struct type
PositionOf(f) == CHOOSE i \in 1..Len(dataType.fields) : dataType.fields[i] = f
\* the names under which the derived configurations select field f
BoundTo(f) == {n \in DOMAIN fields.cfg : fields.cfg[n].StructFieldName = f.Name}

\* C7: in the configurations derived for a struct type, an unexported field
\* without annotation is bound under no name, and an unexported field
\* annotated with names is bound under those names.
C7_UnexportedExposedByTag ==
    pc = "configured" =>
        \A f \in RecordFields :
            f.PkgPath # <<>> =>
                /\ f.Tag = NoTag => BoundTo(f) = {}
                /\ f.Tag \notin {NoTag, <<"-">>} =>
                      \E n \in ListedNames[f.Tag] : n \in BoundTo(f)

\* the type is of an unsupported kind, or a map or slice of such a type
Unsupported(t) == derefType(t).kind = "chan"
OfUnsupported(t) ==
    /\ derefType(t).kind \in {"slice", "map"}
    /\ Unsupported(derefType(t).elem)

\* C8: the derivation for a struct type with a field of unsupported kind, or
\* with a map or slice of values of unsupported kind, completes; the field
\* admits no descent (and, of unsupported kind itself, no operator), and the
\* other fields are bound.
C8_UnsupportedNotFilterable ==
    /\ (\E f \in RecordFields : Unsupported(f.Type) \/ OfUnsupported(f.Type))
          => pc \notin {"panicked", "failed"}
    /\ pc = "configured" =>
          \A f \in RecordFields :
              /\ Unsupported(f.Type) \/ OfUnsupported(f.Type)
                    => \A n \in BoundTo(f) : fields.cfg[n].SubFields = NoFields
              /\ Unsupported(f.Type)
                    => \A n \in BoundTo(f) : fields.cfg[n].SupportedOperations = {}
              /\ (\E g \in RecordFields : Unsupported(g.Type))
                    /\ f.PkgPath = <<>> /\ f.Tag = NoTag /\ ~Unsupported(f.Type)
                    => f.Name \in BoundTo(f)

\* C9 as stated: a field without annotation is bound under exactly its
\* name, a field annotated with a list under exactly the names listed, a
\* field annotated "-" under no name; the configuration bound has the
\* field's name as StructFieldName.
C9_RecordNamingOfEveryField ==
    pc = "configured" =>
        \A f \in RecordFields :
            BoundTo(f) = IF f.Tag = NoTag THEN {f.Name}
                         ELSE IF f.Tag = <<"-">> THEN {}
                         ELSE ListedNames[f.Tag]

\* the names an exported field asks for: its name without annotation, none
\* when the first name of the annotation is "-", the names listed otherwise
NamesAskedBy(f) ==
    IF f.Tag = NoTag THEN {f.Name}
    ELSE IF f.Tag \in {<<"-">>, <<"-", ",", "x">>} THEN {}
    ELSE ListedNames[f.Tag]
\* the last exported field that asks for name n, if any
Askers(n) == {f \in RecordFields : f.PkgPath = <<>> /\ n \in NamesAskedBy(f)}
LastAsker(n) ==
    CHOOSE f \in Askers(n) : \A g \in Askers(n) : PositionOf(g) <= PositionOf(f)

\* a match on a single name of the record, against a record whose field of
\* that name's configuration is a string
ReadsStringField ==
    /\ pc = "evaluated" /\ RecordFields # {}
    /\ ast.node = "MatchExpr" /\ Len(ast.Selector) = 1
    /\ ast.Operator \in {MatchEqual, MatchNotEqual}
    /\ datum.fields[fields.cfg[ast.Selector[1]].StructFieldName].Value.kind = "string"

\* C9 amended: for the exported fields of a struct type whose derivation
\* completes: a field is bound under no other names than those it asks for
\* (its name without annotation, the names listed by its annotation, none
\* when the annotation starts with "-"); every name asked for is bound to
\* the configuration of the last field asking for it, with that field's
\* name as StructFieldName; all names bound to a field are bound to one
\* configuration; and the evaluation reads the field of that name.
C9_RecordNaming ==
    /\ pc = "configured" =>
          /\ \A f \in RecordFields :
                f.PkgPath = <<>> =>
                    /\ BoundTo(f) \subseteq NamesAskedBy(f)
                    /\ \A n \in NamesAskedBy(f) :
                          /\ n \in DOMAIN fields.cfg
                          /\ fields.cfg[n].StructFieldName = LastAsker(n).Name
                    /\ \A n1 \in BoundTo(f), n2 \in BoundTo(f) :
                          fields.cfg[n1] = fields.cfg[n2]
    /\ ReadsStringField =>
          LET read == datum.fields[fields.cfg[ast.Selector[1]].StructFieldName].Value IN
          /\ ~result.out.panic /\ result.out.err = "nil"
          /\ result.out.result
                = ((ast.Operator = MatchEqual) <=> (read = ast.Value.Converted))

\* an alias reads the field it is bound to, which has another name: the
\* match is true on the field and would be false on the field of the
\* selector's name
C9_Witness ==
    /\ ReadsStringField
    /\ ast.Operator = MatchEqual /\ result.out.result
    /\ ast.Selector[1] \in DOMAIN datum.fields
    /\ fields.cfg[ast.Selector[1]].StructFieldName # ast.Selector[1]
    /\ datum.fields[ast.Selector[1]].Value # ast.Value.Converted

(***************************************************************************)
(* Properties of the match operators at the end of the selector            *)
(***************************************************************************)
\* the calls at the end of the selector with operator op
Terminal(ops) ==
    {c \in LastCalls : c.depth >= Len(c.expression.Selector) /\ c.expression.Operator \in ops}
\* the outcome of MatchIn on the value of the call
InOutcome(c) == OutcomeOf([c EXCEPT !.expression.Operator = MatchIn])

\* C10: at the end of the selector MatchIn is, without error, the presence
\* of the match value among the keys of a map, among the items of a slice,
\* or as a substring of a string, and an error on any other kind; MatchNotIn
\* is the negation of MatchIn when MatchIn gives no error.
C10_TerminalIn ==
    /\ \A c \in Terminal({MatchIn}) :
          IF c.rvalue.kind = "map"
          THEN OutcomeOf(c) = EvalReturn(ConvertedOf(c).str \in DOMAIN c.rvalue.entries, "nil")
          ELSE IF c.rvalue.kind = "slice"
          THEN OutcomeOf(c) = EvalReturn(\E i \in 1..Len(c.rvalue.items) :
                                            Indirect(c.rvalue.items[i]) = ConvertedOf(c),
                                         "nil")
          ELSE IF c.rvalue.kind = "string"
          THEN OutcomeOf(c) = EvalReturn(Contains(c.rvalue.str, ConvertedOf(c).str), "nil")
          ELSE ~OutcomeOf(c).panic /\ OutcomeOf(c).err # "nil"
    /\ \A c \in Terminal({MatchNotIn}) :
          ~InOutcome(c).panic /\ InOutcome(c).err = "nil"
              => OutcomeOf(c) = EvalReturn(~InOutcome(c).result, "nil")

(***************************************************************************)
(* Properties of And, Or and Not                                           *)
(***************************************************************************)
EvalLeft == evaluate(ast.Left, datum, fields.cfg)
EvalRight == evaluate(ast.Right, datum, fields.cfg)
\* the last Evaluate was of an And or Or whose left operand returned
BinaryEvaluated(op) ==
    /\ pc = "evaluated" /\ ast.node = "BinaryExpr" /\ ast.Operator = op
    /\ ~EvalLeft.out.panic

\* C4: And and Or evaluate the left operand first; And returns the left
\* outcome without evaluating the right operand when the left operand gives
\* false or an error, Or when it gives true or an error; otherwise the
\* outcome is that of the right operand, evaluated after the left.
C4_ShortCircuit ==
    /\ BinaryEvaluated(BinaryOpAnd) =>
          IF EvalLeft.out.err # "nil" \/ ~EvalLeft.out.result
          THEN result.out = EvalLeft.out /\ result.probe = <<ast.Left>>
          ELSE result.out = EvalRight.out /\ result.probe = <<ast.Left, ast.Right>>
    /\ BinaryEvaluated(BinaryOpOr) =>
          IF EvalLeft.out.err # "nil" \/ EvalLeft.out.result
          THEN result.out = EvalLeft.out /\ result.probe = <<ast.Left>>
          ELSE result.out = EvalRight.out /\ result.probe = <<ast.Left, ast.Right>>

\* an And whose left operand is false and whose right operand, left
\* unevaluated, is true
C4_Witness ==
    /\ BinaryEvaluated(BinaryOpAnd)
    /\ IsFalse(EvalLeft.out) /\ IsTrue(EvalRight.out)
    /\ ast.Left # ast.Right
    /\ result.probe = <<ast.Left>>

\* the other side of De Morgan's law for Not(And(a, b)) and Not(Or(a, b))
DeMorganDual(e) ==
    IF e.Operand.Operator = BinaryOpAnd
    THEN Or(Not(e.Operand.Left), Not(e.Operand.Right))
    ELSE And(Not(e.Operand.Left), Not(e.Operand.Right))
NegatedBinaryEvaluated ==
    /\ pc = "evaluated" /\ ast.node = "UnaryExpr" /\ ast.Operand.node = "BinaryExpr"

\* C6: Not(And(a, b)) has the outcome (result and error) of
\* Or(Not(a), Not(b)), and Not(Or(a, b)) that of And(Not(a), Not(b)), also
\* when a or b gives an error.
C6_DeMorgan ==
    NegatedBinaryEvaluated =>
        result.out = evaluate(DeMorganDual(ast), datum, fields.cfg).out

\* a Not(Or(a, b)) whose a gives an error where b would be true
C6_Witness ==
    /\ NegatedBinaryEvaluated /\ ast.Operand.Operator = BinaryOpOr
    /\ ~result.out.panic /\ result.out.err # "nil"
    /\ IsTrue(evaluate(ast.Operand.Right, datum, fields.cfg).out)

EvalOperand == evaluate(ast.Operand, datum, fields.cfg)
\* the last Evaluate was of a Not whose operand returned
NotEvaluated ==
    /\ pc = "evaluated" /\ ast.node = "UnaryExpr" /\ ast.Operator = UnaryOpNot
    /\ ~EvalOperand.out.panic

\* C11 as stated: when the operand of Not gives a boolean r without error,
\* Not returns the negation of r without error; when the operand gives an
\* error, Not returns the operand's outcome, its error and its result value,
\* unchanged.
C11_NotPassesOutcomeOnError ==
    NotEvaluated =>
        IF EvalOperand.out.err = "nil"
        THEN result.out = EvalReturn(~EvalOperand.out.result, "nil")
        ELSE result.out = EvalOperand.out

\* C11 amended: when the operand of Not gives a boolean r without error,
\* Not returns the negation of r without error; when the operand gives an
\* error, Not returns that error unchanged beside the negation of the
\* operand's result value; in both cases nothing but the operand is
\* evaluated.
C11_NotNegatesBesideError ==
    NotEvaluated =>
        /\ result.probe = EvalOperand.probe
        /\ IF EvalOperand.out.err = "nil"
           THEN result.out = EvalReturn(~EvalOperand.out.result, "nil")
           ELSE /\ result.out.err = EvalOperand.out.err
                /\ result.out.result = ~EvalOperand.out.result
                /\ ~result.out.panic

\* a Not of a Not whose operand gives an error: the inner Not hands on the
\* error beside true, the outer one beside false
C11_Witness ==
    /\ NotEvaluated /\ ast.Operand.node = "UnaryExpr"
    /\ EvalOperand.out.err # "nil" /\ EvalOperand.out.result
    /\ result.out.err = EvalOperand.out.err /\ ~result.out.result
====
